---------------------------- MODULE Spec2Model ----------------------------
(***************************************************************************)
(* grpc-code-gen: the generator (src/src/base.ts, gen) and the call        *)
(* wrapper it emits for every service method (the typescript and the      *)
(* javascript template of base.ts).                                        *)
(*                                                                         *)
(* Three groups of state, one per part of the program:                     *)
(*   - the run time of a generated service module: the clock, the heap of  *)
(*     option and metadata objects, and the wrapper invocations in flight; *)
(*   - one call of getTsType (the type resolver);                          *)
(*   - one run of gen (namespace build, declarations, service files).      *)
(* Strings that the code splits, joins or matches are sequences of tokens, *)
(* so that split('.'), join('.'), replace and the regular expressions are  *)
(* computed and not assumed.                                               *)
(***************************************************************************)
EXTENDS Integers, Sequences, FiniteSets, TLC

VARIABLES
    clock,      \* Date.now()
    heap,       \* object id -> object (a map from property name to number)
    w,          \* wrapper invocation -> its closure: arguments, locals, position
    promises,   \* wrapper invocation -> the promise of promisify(wrapper), if any
    rs,         \* one call of getTsType: its arguments and what it gave
    g           \* one run of gen: its input, position, files and service tasks

callVars == <<clock, heap, w>>

vars == <<clock, heap, w, promises, rs, g>>

(***************************************************************************)
(* Bounds of the model.                                                    *)
(***************************************************************************)
MaxClock == 100

\* The wrapper invocations that may be in flight together.
Invs == {"i1", "i2"}

\* By how much the clock moves in one step.
TickSteps == {20, 25}

(***************************************************************************)
(* JavaScript objects: finite maps from property names to numbers.         *)
(***************************************************************************)
EmptyObj == [k \in {} |-> 0]

\* Object.assign(target, source): the own properties of source overwrite.
Assign(target, source) ==
    [k \in (DOMAIN target) \cup (DOMAIN source) |->
        IF k \in DOMAIN source THEN source[k] ELSE target[k]]

\* typeof o.p === 'number'
IsNumberProp(o, p) == p \in DOMAIN o

\* A JavaScript value is <<type, owner, name>>: a request, a callback, a
\* reference to an object of the heap, or undefined.
Undefined == <<"undefined", "", "">>

Ref(owner, name) == <<"object", owner, name>>

\* The object a source argument of Object.assign contributes: undefined and
\* null sources are skipped.
Source(h, ref) == IF ref \in DOMAIN h THEN h[ref] ELSE EmptyObj

(***************************************************************************)
(* Program constants of the emitted module.                                *)
(***************************************************************************)
maxTry == 3

RetryDelay == 25

\* /^Internal HTTP2 error/
TransientPattern == <<"Internal", "HTTP2", "error">>

\* RegExp.prototype.test for an anchored literal prefix.
TestPrefix(pattern, text) ==
    /\ Len(text) >= Len(pattern)
    /\ SubSeq(text, 1, Len(pattern)) = pattern

(***************************************************************************)
(* The errors the transport may hand to the terminal callback. An error    *)
(* is [kind, attempt]: the attempt that produced it is its identity. Its   *)
(* texts are sequences of words; <<>> is the empty or missing text.        *)
(***************************************************************************)
ErrKinds == {"h2details", "h2message", "deadline", "wrapped"}

Details(kind) ==
    CASE kind = "h2details" -> <<"Internal", "HTTP2", "error", "reset">>
      [] kind = "h2message" -> <<>>
      [] kind = "deadline"  -> <<"Deadline", "exceeded">>
      [] kind = "wrapped"   -> <<"Received", "RST_STREAM", "Internal", "HTTP2", "error">>

Message(kind) ==
    CASE kind = "h2details" -> <<"13", "INTERNAL", "Internal", "HTTP2", "error", "reset">>
      [] kind = "h2message" -> <<"Internal", "HTTP2", "error">>
      [] kind = "deadline"  -> <<"4", "DEADLINE_EXCEEDED", "Deadline", "exceeded">>
      [] kind = "wrapped"   -> <<"13", "INTERNAL", "Received", "RST_STREAM">>

\* The kinds whose error text (details, else message) begins "Internal HTTP2
\* error": what the transport did, whatever the wrapper makes of it.
TransientKinds == {"h2details", "h2message"}

Data(kind) == <<>>

\* a || b for texts: the empty text is falsy.
OrText(a, b) == IF a # <<>> THEN a ELSE b

NoError == [kind |-> "null", attempt |-> 0]

\* Whether pattern occurs anywhere in text.
Contains(pattern, text) ==
    \E k \in 0..(Len(text) - Len(pattern)) :
        SubSeq(text, k + 1, k + Len(pattern)) = pattern

\* The test with the ^ of the pattern left out.
IsTransientUnanchored(err) ==
    Contains(TransientPattern,
             OrText(Details(err.kind), OrText(Message(err.kind), Data(err.kind))))

\* /^Internal HTTP2 error/.test(err.details || err.message || err.data)
IsTransient(err) ==
    TestPrefix(TransientPattern,
               OrText(Details(err.kind), OrText(Message(err.kind), Data(err.kind))))


(***************************************************************************)
(* The objects of a generated service module and of its callers.           *)
(***************************************************************************)
\* const callOptions = config.callOptions ? { ...config.callOptions } : {}
callOptions == Ref("module", "callOptions")

\* What config.callOptions may hold.
ConfigCallOptions == {EmptyObj, [timeout |-> 30]}

\* Objects the callers own and pass as options or as metadata.
CallerHeap ==
    (Ref("caller", "o1") :> [timeout |-> 50])
    @@ (Ref("caller", "o2") :> [deadline |-> 7])
    @@ (Ref("caller", "empty") :> EmptyObj)
    @@ (Ref("caller", "m1") :> [xid |-> 1])

CallerObjs == DOMAIN CallerHeap

Requests == {<<"request", "caller", "reqA">>}

\* The callback of an invocation: the one promisify or the V2 form passes. It
\* settles the promise of that invocation.
Callback(i) == <<"callback", i, "">>

\* The objects one invocation creates: the {} literals of the switch and the
\* target of Object.assign.
MetadataLit(i) == Ref(i, "metadata{}")

OptionsLit(i) == Ref(i, "options{}")

OptionsCopy(i) == Ref(i, "options")

\* Object.assign(target, s1, s2) on heap h: the heap after it. A target that
\* is not yet in the heap is a new empty object.
ObjectAssign(h, target, s1, s2) ==
    LET base == IF target \in DOMAIN h THEN h[target] ELSE EmptyObj
    IN  (target :> Assign(Assign(base, Source(h, s1)), Source(h, s2))) @@ h

\* toMetadata(metadata): a new Metadata holding every key of the map; empty
\* when metadata is not an object.
toMetadata(h, metadata) == Source(h, metadata)

(***************************************************************************)
(* wrapper: the closure of one invocation.                                 *)
(***************************************************************************)
IdleClosure ==
    [pc |-> "Idle", argv |-> <<>>, request |-> Undefined, metadata |-> Undefined,
     options |-> Undefined, callback |-> Undefined, count |-> 0, due |-> 0,
     calls |-> <<>>, fails |-> 0, settled |-> <<>>]

\* The ways a wrapper is entered: promisify(wrapper) adds the callback to the
\* caller's 1, 2 or 3 arguments; the V2 form always passes 4.
ArgForms(i) ==
    {<<r, Callback(i)>> : r \in Requests}
    \cup {<<r, x, Callback(i)>> : r \in Requests, x \in CallerObjs}
    \cup {<<r, m, o, Callback(i)>> :
            r \in Requests, m \in {Ref("caller", "m1"), Ref("caller", "empty"), Undefined},
            o \in {Ref("caller", "o1"), Ref("caller", "o2"), Ref("caller", "empty"), Undefined}}

\* case 3 read as (request, metadata, callback).
ArgMetadataThird(i, args) == IF Len(args) >= 3 THEN args[2] ELSE MetadataLit(i)

\* switch (arguments.length): the parameters after the switch.
ArgMetadata(i, args) == IF Len(args) = 4 THEN args[2] ELSE MetadataLit(i)

ArgOptions(i, args) ==
    CASE Len(args) = 2 -> OptionsLit(i)
      [] Len(args) = 3 -> args[2]
      [] Len(args) = 4 -> args[3]

ArgCallback(i, args) == args[Len(args)]

\* The {} literals the switch creates.
SwitchHeap(h, i, args) ==
    CASE Len(args) = 2 -> (MetadataLit(i) :> EmptyObj) @@ (OptionsLit(i) :> EmptyObj) @@ h
      [] Len(args) = 3 -> (MetadataLit(i) :> EmptyObj) @@ h
      [] Len(args) = 4 -> h

\* Object.assign(callOptions, options): the {} target left out.
AssignTargetShared(i) == callOptions

\* The first argument of Object.assign in the wrapper: a new object.
AssignTarget(i) == OptionsCopy(i)

\* The deadline computed once, on the first attempt only.
DoCallHeapOnce(h, c, now) ==
    IF IsNumberProp(h[c.options], "timeout") /\ ~IsNumberProp(h[c.options], "deadline")
    THEN [h EXCEPT ![c.options] = Assign(@, [deadline |-> now + @.timeout])]
    ELSE h

\* doCall: the deadline write.
DoCallHeap(h, c, now) ==
    IF IsNumberProp(h[c.options], "timeout")
    THEN [h EXCEPT ![c.options] = Assign(@, [deadline |-> now + @.timeout])]
    ELSE h

\* doCall: origin.apply(self, [request, toMetadata(metadata), options, cb]).
DoCallClosure(h, c, now) ==
    [c EXCEPT !.pc = "Attempting",
              !.calls = Append(@, [request |-> c.request,
                                   metadata |-> toMetadata(h, c.metadata),
                                   optionsRef |-> c.options,
                                   options |-> DoCallHeap(h, c, now)[c.options],
                                   at |-> now])]

\* wrapper(...args): the switch, the copy of the options, count = 0 and the
\* first doCall.
Invoke(i, args) ==
    /\ w[i].pc = "Idle"
    /\ LET h1 == SwitchHeap(heap, i, args)
           h2 == ObjectAssign(h1, AssignTarget(i), callOptions, ArgOptions(i, args))
           c  == [w[i] EXCEPT !.argv = args,
                              !.request = args[1],
                              !.metadata = ArgMetadata(i, args),
                              !.options = AssignTarget(i),
                              !.callback = ArgCallback(i, args),
                              !.count = 0]
       IN  /\ heap' = DoCallHeap(h2, c, clock)
           /\ w' = [w EXCEPT ![i] = DoCallClosure(h2, c, clock)]
    /\ UNCHANGED clock

\* The retry bound off by one: count <= maxTry.
ShouldRetryOffByOne(err, count) ==
    /\ err # NoError
    /\ count <= maxTry
    /\ IsTransient(err)

\* The condition of the retry.
ShouldRetry(err, count) ==
    /\ err # NoError
    /\ count < maxTry
    /\ IsTransient(err)

\* The callback invoked on success only: an error ends the call unreported.
CallCallbackOnSuccess(c, err, response) ==
    IF err = NoError
    THEN [c EXCEPT !.settled = Append(@, [callback |-> c.callback,
                                          err |-> err,
                                          response |-> response,
                                          metadataRes |-> "trailers"]),
                   !.pc = "Done"]
    ELSE [c EXCEPT !.pc = "Done"]

\* callback(err, response, metadataRes): the caller's callback is invoked.
CallCallback(c, err, response) ==
    [c EXCEPT !.settled = Append(@, [callback |-> c.callback,
                                     err |-> err,
                                     response |-> response,
                                     metadataRes |-> "trailers"]),
              !.pc = "Done"]

\* count++; setTimeout(..., 25)
ScheduleRetry(c, now) ==
    [c EXCEPT !.count = @ + 1, !.due = now + RetryDelay, !.pc = "Retrying"]

\* The terminal callback of an attempt: the transport answers with no error
\* (kind "ok") or with an error of some kind. fails counts the answers whose
\* error text begins "Internal HTTP2 error". An answer that leads to a retry
\* comes early enough for the timer to be due by MaxClock.
Reply(i, kind) ==
    /\ w[i].pc = "Attempting"
    /\ LET err == IF kind = "ok" THEN NoError
                  ELSE [kind |-> kind, attempt |-> Len(w[i].calls)]
           response == IF kind = "ok" THEN "response" ELSE "null"
           c == [w[i] EXCEPT !.fails = IF kind \in TransientKinds THEN @ + 1 ELSE @]
       IN  IF ShouldRetry(err, c.count)
           THEN /\ clock + RetryDelay <= MaxClock
                /\ w' = [w EXCEPT ![i] = ScheduleRetry(c, clock)]
           ELSE w' = [w EXCEPT ![i] = CallCallback(c, err, response)]
    /\ UNCHANGED <<clock, heap>>

\* setTimeout(() => doCall(self), 25) fires.
TimerFire(i) ==
    /\ w[i].pc = "Retrying"
    /\ clock >= w[i].due
    /\ heap' = DoCallHeap(heap, w[i], clock)
    /\ w' = [w EXCEPT ![i] = DoCallClosure(heap, w[i], clock)]
    /\ UNCHANGED clock

\* Time passes. The clock stops at MaxClock unless a timer is still to fire.
Tick(d) ==
    /\ \/ clock + d <= MaxClock
       \/ \E i \in Invs : w[i].pc = "Retrying" /\ clock < w[i].due
    /\ clock' = clock + d
    /\ UNCHANGED <<heap, w>>

\* The wrapper was not entered through promisify(wrapper).
NoPromise == [state |-> "none", overload |-> "none", args |-> <<>>]

\* No call of getTsType: the state of the resolver while the wrapper runs.
NoResolve == [phase |-> "none"]

\* No run of gen.
NoGen == [pc |-> "none"]

\* A service module is loaded: callOptions is read from the configuration and
\* no wrapper has been invoked.
Init ==
    /\ clock = 0
    /\ \E co \in ConfigCallOptions : heap = (callOptions :> co) @@ CallerHeap
    /\ w = [i \in Invs |-> IdleClosure]
    /\ promises = [i \in Invs |-> NoPromise]
    /\ rs = NoResolve
    /\ g = NoGen

\* One invocation, every way of entering the wrapper.
Next ==
    /\ \/ \E args \in ArgForms("i1") : Invoke("i1", args)
       \/ \E kind \in ErrKinds \cup {"ok"} : Reply("i1", kind)
       \/ TimerFire("i1")
       \/ \E d \in TickSteps : Tick(d)
    /\ UNCHANGED <<promises, rs, g>>

Spec == Init /\ [][Next]_vars

\* The transport calls back once per attempt and timers fire.
FairSpec ==
    /\ Spec
    /\ WF_callVars(\E kind \in ErrKinds \cup {"ok"} : Reply("i1", kind))
    /\ WF_callVars(TimerFire("i1"))
    /\ WF_callVars(Tick(RetryDelay))

\* Two invocations in flight together, of the same method or of two methods of
\* one service module: both closures share callOptions and nothing else.
PairForms(i) ==
    {<<r, Callback(i)>> : r \in Requests}
    \cup {<<r, Ref("caller", "o1"), Callback(i)>> : r \in Requests}
    \cup {<<r, Ref("caller", "empty"), Ref("caller", "empty"), Callback(i)>> : r \in Requests}
    \cup {<<r, Ref("caller", "m1"), Ref("caller", "o1"), Callback(i)>> : r \in Requests}

\* The answers of the transport in PairSpec: success, a transient error, another.
PairKinds == {"ok", "h2details", "deadline"}

PairNext ==
    /\ \/ \E i \in Invs : \E args \in PairForms(i) : Invoke(i, args)
       \/ \E i \in Invs : \E kind \in PairKinds : Reply(i, kind)
       \/ \E i \in Invs : TimerFire(i)
       \/ Tick(RetryDelay)
    /\ UNCHANGED <<promises, rs, g>>

PairSpec == Init /\ [][PairNext]_vars

(***************************************************************************)
(* The legacy promise form: Service.prototype[key] = promisify(wrapper).   *)
(***************************************************************************)
\* What a caller passes through the two overloads the generated interface
\* declares: name(request, options?) and name(request, metadata, options?).
LegacyForms ==
    {[overload |-> "options", args |-> <<r>>] : r \in Requests}
    \cup {[overload |-> "options", args |-> <<r, o>>] :
            r \in Requests,
            o \in {Ref("caller", "o1"), Ref("caller", "o2"), Ref("caller", "empty")}}
    \cup {[overload |-> "metadata", args |-> <<r, m>>] :
            r \in Requests, m \in {Ref("caller", "m1"), Ref("caller", "empty")}}
    \cup {[overload |-> "metadata", args |-> <<r, m, o>>] :
            r \in Requests, m \in {Ref("caller", "m1"), Ref("caller", "empty")},
            o \in {Ref("caller", "o1"), Ref("caller", "o2"), Ref("caller", "empty")}}

\* promisify(wrapper)(...args): a new promise, and the wrapper called with the
\* caller's arguments and the promise's callback after them.
promisify(i, form) ==
    /\ promises[i].state = "none"
    /\ Invoke(i, Append(form.args, Callback(i)))
    /\ promises' = [promises EXCEPT ![i] = [state |-> "pending",
                                            overload |-> form.overload,
                                            args |-> form.args]]

\* The terminal callback of an attempt, and the promise's callback when the
\* wrapper calls it: err rejects the promise, no err fulfils it.
PromiseReply(i, kind) ==
    /\ promises[i].state = "pending"
    /\ Reply(i, kind)
    /\ promises' = [promises EXCEPT ![i].state =
                      IF w'[i].pc # "Done" THEN @
                      ELSE IF kind = "ok" THEN "fulfilled" ELSE "rejected"]

LegacyNext ==
    /\ \/ \E form \in LegacyForms : promisify("i1", form)
       \/ \E kind \in ErrKinds \cup {"ok"} : PromiseReply("i1", kind)
       \/ TimerFire("i1") /\ UNCHANGED promises
       \/ \E d \in TickSteps : Tick(d) /\ UNCHANGED promises
    /\ UNCHANGED <<rs, g>>

LegacySpec == Init /\ [][LegacyNext]_vars

(***************************************************************************)
(* Strings of the generator. A string is a sequence of tokens: names, and  *)
(* the separators "." and "/".                                             *)
(***************************************************************************)
RECURSIVE SplitFrom(_, _, _, _, _)
SplitFrom(s, sep, i, cur, acc) ==
    IF i > Len(s) THEN Append(acc, cur)
    ELSE IF s[i] = sep THEN SplitFrom(s, sep, i + 1, <<>>, Append(acc, cur))
    ELSE SplitFrom(s, sep, i + 1, Append(cur, s[i]), acc)

\* String.prototype.split(sep): "" splits into [""].
Split(s, sep) == SplitFrom(s, sep, 1, <<>>, <<>>)

RECURSIVE Join(_, _)
\* Array.prototype.join(sep)
Join(parts, sep) ==
    IF Len(parts) = 0 THEN <<>>
    ELSE IF Len(parts) = 1 THEN parts[1]
    ELSE parts[1] \o <<sep>> \o Join(Tail(parts), sep)

RECURSIVE ReplaceAll(_, _, _)
\* String.prototype.replace(/sep/g, by)
ReplaceAll(s, sep, by) ==
    IF Len(s) = 0 THEN <<>>
    ELSE (IF Head(s) = sep THEN by ELSE <<Head(s)>>) \o ReplaceAll(Tail(s), sep, by)

\* array.slice(0, array.length - 1)
DropLast(parts) == SubSeq(parts, 1, Len(parts) - 1)

\* The string of a dotted name, from its segments.
Dotted(segs) == Join([k \in 1..Len(segs) |-> <<segs[k]>>], ".")

getPackageName(fullName) == Join(DropLast(Split(fullName, ".")), ".")

\* The last segment of a full name: the symbol's name.
LocalName(fullName) == Split(fullName, ".")[Len(Split(fullName, "."))]

(***************************************************************************)
(* The type resolver.                                                      *)
(***************************************************************************)
PROTO_TYPE_2_TS_TYPE_MAP ==
    [double |-> "number", float |-> "number", int32 |-> "number", int64 |-> "number",
     uint32 |-> "number", uint64 |-> "number", sint32 |-> "number", sint64 |-> "number",
     fixed32 |-> "number", fixed64 |-> "number", sfixed32 |-> "number",
     sfixed64 |-> "number", bool |-> "boolean", string |-> "string", bytes |-> "string"]

PROTO_TYPE_2_JSON_SEMANTIC_MAP ==
    [double |-> "NumberSchema", float |-> "NumberSchema", int32 |-> "NumberSchema",
     int64 |-> "NumberSchema", uint32 |-> "NumberSchema", uint64 |-> "NumberSchema",
     sint32 |-> "NumberSchema", sint64 |-> "NumberSchema", fixed32 |-> "NumberSchema",
     fixed64 |-> "NumberSchema", sfixed32 |-> "NumberSchema", sfixed64 |-> "NumberSchema",
     bool |-> "BooleanSchema", string |-> "StringSchema", bytes |-> "StringSchema"]

\* The properties every object literal inherits from Object.prototype: map[key]
\* is truthy for them too.
ObjectPrototypeProps ==
    {"constructor", "toString", "toLocaleString", "valueOf", "hasOwnProperty",
     "isPrototypeOf", "propertyIsEnumerable"}

\* map[key] of one of the two tables above, as text; <<>> when undefined.
TableLookup(map, key) ==
    IF Len(key) = 1 /\ key[1] \in DOMAIN map THEN <<map[key[1]]>>
    ELSE IF Len(key) = 1 /\ key[1] \in ObjectPrototypeProps THEN <<"function", key[1]>>
    ELSE <<>>

\* No string: null, or undefined.
Null == <<"<null>">>

RECURSIVE walkPackagePath(_, _, _, _)
\* walkPackagePath(packagePath, type, map): the key found, or Null; and the keys
\* tested on the way, each with the table (mapName) it was tested in.
walkPackagePath(packagePath, type, map, mapName) ==
    LET key == packagePath \o <<".">> \o type
        split == Split(packagePath, ".")
    IN  IF key \in map
        THEN [found |-> key, probes |-> <<<<mapName, key>>>>]
        ELSE IF Len(split) = 1
        THEN [found |-> Null, probes |-> <<<<mapName, key>>>>]
        ELSE LET rest == walkPackagePath(Join(DropLast(split), "."), type, map, mapName)
             IN  [found |-> rest.found, probes |-> <<<<mapName, key>>>> \o rest.probes]

\* typeOrEnum.fullName.replace(/^\./, '')
StripLeadingDot(s) == IF Len(s) > 0 /\ Head(s) = "." THEN Tail(s) ELSE s

\* What getTsType gives: the reference, or the error it throws; and the keys it
\* tested, in order.
TypeRef(tsType, semanticType, basic, probes) ==
    [threw |-> FALSE, tsType |-> tsType, semanticType |-> semanticType,
     basic |-> basic, message |-> <<>>, probes |-> probes]

TypeError(message, probes) ==
    [threw |-> TRUE, tsType |-> Null, semanticType |-> Null,
     basic |-> FALSE, message |-> message, probes |-> probes]

\* isArr ? `ArraySchemaWithGenerics<${tsType}>` : undefined
ArraySemantic(tsType, isArr) ==
    IF isArr THEN <<"ArraySchemaWithGenerics", "<">> \o tsType \o <<">">> ELSE Null

\* The scope search of getTsType with the scalar test after it.
getTsTypeScopeFirst(protoType, fullName, config, isArr) ==
    LET inMessages == walkPackagePath(fullName, protoType, config.messageMap, "messageMap")
        inEnums == walkPackagePath(fullName, protoType, config.enumMap, "enumMap")
    IN  IF inMessages.found # Null
        THEN TypeRef(inMessages.found, ArraySemantic(inMessages.found, isArr), FALSE,
                     inMessages.probes)
        ELSE IF inEnums.found # Null
        THEN TypeRef(inEnums.found, ArraySemantic(inEnums.found, isArr), FALSE,
                     inMessages.probes \o inEnums.probes)
        ELSE IF TableLookup(PROTO_TYPE_2_TS_TYPE_MAP, protoType) # <<>>
        THEN TypeRef(TableLookup(PROTO_TYPE_2_TS_TYPE_MAP, protoType),
                     TableLookup(PROTO_TYPE_2_JSON_SEMANTIC_MAP, protoType), TRUE,
                     inMessages.probes \o inEnums.probes)
        ELSE TypeError(protoType \o <<" not exist in message: ">> \o fullName,
                       inMessages.probes \o inEnums.probes)

\* getTsType(protoType, fullName, config, isArr). config.root is the global
\* lookup of the schema: bare name -> ".full.name", or Null.
getTsType(protoType, fullName, config, isArr) ==
    LET basic == TableLookup(PROTO_TYPE_2_TS_TYPE_MAP, protoType)
        inMessages == walkPackagePath(fullName, protoType, config.messageMap, "messageMap")
        inEnums == walkPackagePath(fullName, protoType, config.enumMap, "enumMap")
        walked == IF inMessages.found # Null THEN inMessages.found ELSE inEnums.found
        walkProbes == IF inMessages.found # Null THEN inMessages.probes
                      ELSE inMessages.probes \o inEnums.probes
        typeOrEnum == config.root[protoType]
        tsType == IF walked # Null THEN walked
                  ELSE IF typeOrEnum # Null THEN StripLeadingDot(typeOrEnum)
                  ELSE Null
        probes == IF walked # Null THEN walkProbes
                  ELSE walkProbes \o <<<<"root", protoType>>>>
    IN  IF basic # <<>>
        THEN TypeRef(basic, TableLookup(PROTO_TYPE_2_JSON_SEMANTIC_MAP, protoType), TRUE, <<>>)
        ELSE IF "." \in {protoType[k] : k \in 1..Len(protoType)}
        THEN TypeRef(protoType, ArraySemantic(protoType, isArr), FALSE, <<>>)
        ELSE IF tsType # Null
        THEN TypeRef(tsType, ArraySemantic(tsType, isArr), FALSE, probes)
        ELSE TypeError(protoType \o <<" not exist in message: ">> \o fullName, probes)

(***************************************************************************)
(* One call of getTsType, on a schema drawn from a small universe of       *)
(* symbols: T at the root, in package a, in a.b, nested under the message  *)
(* a.b.M and in a package c apart; and a symbol named like a scalar.       *)
(***************************************************************************)
SymbolUniverse ==
    {Dotted(<<"T">>), Dotted(<<"a", "T">>), Dotted(<<"a", "b", "T">>),
     Dotted(<<"a", "b", "M", "T">>), Dotted(<<"c", "T">>), Dotted(<<"a", "b", "int32">>)}

\* The messages a field type is resolved from, and the services a method type
\* is resolved from.
ReferencingMessages == {Dotted(<<"a", "b", "M">>), Dotted(<<"M">>)}

ReferencingServices == {Dotted(<<"a", "b", "Svc">>), Dotted(<<"Svc">>)}

ScalarKeywords == {<<k>> : k \in DOMAIN PROTO_TYPE_2_TS_TYPE_MAP}

\* The type tokens: every scalar keyword, a bare name, two dotted names (one of
\* them of no symbol) and a bare name that Object.prototype has.
TypeTokens ==
    ScalarKeywords
    \cup {<<"T">>, Dotted(<<"a", "b", "T">>), Dotted(<<"x", "Y">>), <<"toString">>}

BareTokens == {<<"T">>, <<"N">>}

\* root.lookupTypeOrEnum(name), the schema's lookup by bare name from the root:
\* a symbol of the root itself first, else some symbol with that name, else
\* nothing. Its answer is the full name with a leading dot.
RootLookups(symbols) ==
    LET Candidates(t) ==
            IF t \in symbols THEN {t}
            ELSE {f \in symbols : <<LocalName(f)>> = t}
        Answers(t) ==
            IF Candidates(t) = {} THEN {Null}
            ELSE {<<".">> \o f : f \in Candidates(t)}
    IN  {r \in [BareTokens -> UNION {Answers(t) : t \in BareTokens}] :
            \A t \in BareTokens : r[t] \in Answers(t)}

ResolveInit ==
    /\ clock = 0
    /\ heap = (callOptions :> EmptyObj) @@ CallerHeap
    /\ w = [i \in Invs |-> IdleClosure]
    /\ promises = [i \in Invs |-> NoPromise]
    /\ g = NoGen
    /\ \E msgs \in SUBSET SymbolUniverse :
       \E ens \in SUBSET (SymbolUniverse \ msgs) :
       \E from \in ReferencingMessages \cup ReferencingServices :
          LET ctx == IF from \in ReferencingMessages THEN "field" ELSE "method"
              messages == msgs \cup (IF ctx = "field" THEN {from} ELSE {})
          IN  \E root \in RootLookups(messages \cup ens) :
              \E token \in TypeTokens :
              \E arr \in (IF ctx = "field" THEN BOOLEAN ELSE {FALSE}) :
                 rs = [phase |-> "input", context |-> ctx, from |-> from,
                       protoType |-> token, isArr |-> arr,
                       messageMap |-> messages, enumMap |-> ens, root |-> root,
                       scope |-> <<>>, result |-> TypeError(<<>>, <<>>)]

ResolveConfig == [messageMap |-> rs.messageMap, enumMap |-> rs.enumMap, root |-> rs.root]

\* genTsType: getTsType(field.type, message.fullName, config, isArr)
ResolveField ==
    /\ rs.phase = "input"
    /\ rs.context = "field"
    /\ rs' = [rs EXCEPT !.phase = "resolved",
                        !.scope = rs.from,
                        !.result = getTsType(rs.protoType, rs.from, ResolveConfig, rs.isArr)]
    /\ UNCHANGED <<callVars, promises, g>>

\* const packageName = getPackageName(service.fullName).replace(/\./g, '/')
ServicePackageName(serviceFullName) ==
    ReplaceAll(getPackageName(serviceFullName), ".", <<"/">>)

\* services.map: getTsType(method.requestType, packageName, config)
ResolveMethod ==
    /\ rs.phase = "input"
    /\ rs.context = "method"
    /\ rs' = [rs EXCEPT !.phase = "resolved",
                        !.scope = ServicePackageName(rs.from),
                        !.result = getTsType(rs.protoType, ServicePackageName(rs.from),
                                             ResolveConfig, FALSE)]
    /\ UNCHANGED <<callVars, promises, g>>

ResolveNext == ResolveField \/ ResolveMethod

ResolveSpec == ResolveInit /\ [][ResolveNext]_vars

(***************************************************************************)
(* The namespace tree of gen. A JavaScript object tree is a function from  *)
(* key paths to what is there: an object, or a symbol stored in a map. A   *)
(* key is a string (a sequence of tokens).                                 *)
(***************************************************************************)
Obj == [kind |-> "object"]

\* The value of an expression, computed once: The({e(x) : x \in {v}}) is e(v).
The(S) == CHOOSE x \in S : TRUE

\* const namespace: TNamespace = {}
EmptyNamespace == (<<>> :> Obj)

\* lodash stringToPath of a dotted path: one key per segment, and an empty key
\* for a segment that is empty.
stringToPath(path) == Split(path, ".")

\* 'nested.' + packageName.replace(/\./g, '.nested.')
nameSpacePath(fullName) ==
    <<"nested", ".">> \o ReplaceAll(getPackageName(fullName), ".", <<".", "nested", ".">>)

Prefixes(path) == {SubSeq(path, 1, k) : k \in 0..Len(path)}

\* The three statements of one forEach turn:
\*   const latest = get(namespace, nameSpacePath, { [mapKey]: {} });
\*   latest[mapKey][symbol.name] = symbol;
\*   set(namespace, nameSpacePath, latest);
\* get gives the node that is at the path when there is one, and that node has
\* the map only if an earlier turn of the same loop made it.
Insert(tree, mapKey, symbol) ==
    LET path == stringToPath(nameSpacePath(symbol.fullName))
        mapPath == Append(path, <<mapKey>>)
        leaf == Append(mapPath, <<symbol.name>>)
        made == Prefixes(path) \cup {mapPath}
    IN  IF path \in DOMAIN tree /\ mapPath \notin DOMAIN tree
        THEN [threw |-> TRUE,
              error |-> [kind |-> "TypeError",
                         message |-> <<"Cannot set properties of undefined (setting '",
                                       symbol.name, "')">>],
              tree |-> tree]
        ELSE [threw |-> FALSE,
              error |-> [kind |-> "none", message |-> <<>>],
              tree |-> [p \in DOMAIN tree \cup made \cup {leaf} |->
                          IF p = leaf THEN [kind |-> mapKey, symbol |-> symbol]
                          ELSE IF p \in DOMAIN tree THEN tree[p]
                          ELSE Obj]]

RECURSIVE InsertAll(_, _, _, _)
\* list.forEach of the turn above; a throw ends the loop.
InsertAll(tree, mapKey, list, i) ==
    IF i > Len(list)
    THEN [threw |-> FALSE, error |-> [kind |-> "none", message |-> <<>>],
          tree |-> tree, done |-> Len(list)]
    ELSE The({IF one.threw
              THEN [threw |-> TRUE, error |-> one.error, tree |-> one.tree, done |-> i - 1]
              ELSE InsertAll(one.tree, mapKey, list, i + 1) :
              one \in {Insert(tree, mapKey, list[i])}})

\* messages.forEach(...); enums.forEach(...): the tree and the two tables, or
\* the TypeError that ended it.
BuildNamespace(messages, enums) ==
    The({IF withMessages.threw
         THEN [threw |-> TRUE, error |-> withMessages.error, tree |-> withMessages.tree,
               messageMap |-> {messages[i].fullName : i \in 1..withMessages.done},
               enumMap |-> {}]
         ELSE The({[threw |-> withEnums.threw, error |-> withEnums.error,
                    tree |-> withEnums.tree,
                    messageMap |-> {messages[i].fullName : i \in 1..withMessages.done},
                    enumMap |-> {enums[i].fullName : i \in 1..withEnums.done}] :
                   withEnums \in {InsertAll(withMessages.tree, "enums", enums, 1)}}) :
         withMessages \in {InsertAll(EmptyNamespace, "messages", messages, 1)}})

(***************************************************************************)
(* genTsType: the declarations of a namespace tree, as lines of text.      *)
(***************************************************************************)
\* The names of the schemas below in the order of the < of JavaScript strings;
\* the empty string is before them all.
JsStringOrder == <<"E", "Get", "List", "M", "N", "T", "a", "b", "c">>

Rank(key) ==
    IF key = <<>> THEN 0
    ELSE CHOOSE i \in 1..Len(JsStringOrder) : JsStringOrder[i] = key[1]

RECURSIVE SortKeys(_)
\* Object.keys(o).sort((a, b) => a < b ? -1 : a > b ? 1 : 0)
SortKeys(keys) ==
    IF keys = {} THEN <<>>
    ELSE The({<<first>> \o The({SortKeys(rest) : rest \in {keys \ {first}}}) :
              first \in {k \in keys : \A o \in keys : Rank(k) <= Rank(o)}})

\* Object.keys of the object at a path of the tree.
Keys(tree, path) ==
    {q[Len(path) + 1] : q \in {r \in DOMAIN tree :
                                 Len(r) = Len(path) + 1 /\ SubSeq(r, 1, Len(path)) = path}}

Line(indent, text) == [indent |-> indent, text |-> text]

Truthy(string) == string # Null /\ string # <<>>

\* One field of an interface: `${space}  '${field.name}'${field.required ? '' : '?'}: ` and
\* the type, in the four forms of the code.
FieldLine(deep, field, ref, withJsonSemantic) ==
    LET res == <<"'", field.name, "'">> \o (IF field.required THEN <<>> ELSE <<"?">>) \o <<": ">>
        type == IF field.repeated
                THEN IF withJsonSemantic /\ Truthy(ref.semanticType)
                     THEN <<"Array<">> \o ref.tsType \o <<" | ">> \o ref.semanticType \o <<">;">>
                     ELSE ref.tsType \o <<"[]", ";">>
                ELSE IF withJsonSemantic /\ Truthy(ref.semanticType)
                     THEN ref.tsType \o <<" | ">> \o ref.semanticType \o <<";">>
                     ELSE ref.tsType \o <<";">>
    IN  Line(deep * 2 + 2, res \o type)

Text(lines) == [threw |-> FALSE, message |-> <<>>, lines |-> lines]

Thrown(message) == [threw |-> TRUE, message |-> message, lines |-> <<>>]

\* a then b, unless one of them threw
Then(a, b) ==
    The({IF x.threw THEN x
         ELSE The({IF y.threw THEN y ELSE Text(x.lines \o y.lines) : y \in {b}}) :
         x \in {a}})

RECURSIVE FieldLines(_, _, _, _, _)
\* message.fields.map(field => ...), in the declared order
FieldLines(message, i, config, withJsonSemantic, deep) ==
    IF i > Len(message.fields) THEN Text(<<>>)
    ELSE LET field == message.fields[i]
         IN  The({IF ref.threw THEN Thrown(ref.message)
                  ELSE Then(Text(<<FieldLine(deep, field, ref, withJsonSemantic)>>),
                            FieldLines(message, i + 1, config, withJsonSemantic, deep)) :
                  ref \in {getTsType(field.type, message.fullName, config, field.repeated)}})

InterfaceBlock(name, message, config, withJsonSemantic, deep) ==
    Then(Text(<<Line(deep * 2, <<"export interface ", name[1], " {">>)>>),
         Then(FieldLines(message, 1, config, withJsonSemantic, deep),
              Text(<<Line(deep * 2, <<"}">>)>>)))

EnumBlock(name, enumT, deep) ==
    Text(<<Line(deep * 2, <<"export enum ", name[1], " {">>)>>
         \o [k \in 1..Len(enumT.values) |->
               Line(deep * 2 + 2, <<enumT.values[k].key, " = ", enumT.values[k].value, ",">>)]
         \o <<Line(deep * 2, <<"}">>)>>)

RECURSIVE genTsType(_, _, _, _, _)
RECURSIVE Blocks(_, _, _, _, _, _, _)
\* The blocks of the sorted keys of one map of a node (messages, enums or
\* nested), from the i-th on.
Blocks(tree, mapPath, names, i, config, withJsonSemantic, deep) ==
    IF i > Len(names) THEN Text(<<>>)
    ELSE LET name == names[i]
             at == Append(mapPath, name)
             mapKey == mapPath[Len(mapPath)]
             block ==
                 IF mapKey = <<"messages">>
                 THEN InterfaceBlock(name, tree[at].symbol, config, withJsonSemantic, deep)
                 ELSE IF mapKey = <<"enums">>
                 THEN EnumBlock(name, tree[at].symbol, deep)
                 ELSE Then(Text(<<Line(deep * 2, <<"export namespace ">> \o name \o <<" {">>)>>),
                           Then(genTsType(tree, at, config, withJsonSemantic, deep + 1),
                                Text(<<Line(deep * 2, <<"}">>)>>)))
         IN  Then(block, Blocks(tree, mapPath, names, i + 1, config, withJsonSemantic, deep))

\* genTsType(namespace, config, deep) of the node at a path of the tree
genTsType(tree, path, config, withJsonSemantic, deep) ==
    LET Part(mapKey) ==
            LET mapPath == Append(path, <<mapKey>>)
            IN  IF mapPath \in DOMAIN tree
                THEN Blocks(tree, mapPath, SortKeys(Keys(tree, mapPath)), 1, config,
                            withJsonSemantic, deep)
                ELSE Text(<<>>)
    IN  Then(Part("messages"), Then(Part("enums"), Part("nested")))

(***************************************************************************)
(* One run of gen, on a schema drawn from small universes of messages,     *)
(* enums and services. A step of the run is the code between two awaits.   *)
(***************************************************************************)
MaxMessages == 2

MaxEnums == 2

MaxServices == 2

Field(name, type, repeated) ==
    [name |-> name, type |-> type, repeated |-> repeated, required |-> FALSE]

TMessage(segs, fields) ==
    [fullName |-> Dotted(segs), name |-> segs[Len(segs)], fields |-> fields]

TEnum(segs, values) ==
    [fullName |-> Dotted(segs), name |-> segs[Len(segs)], values |-> values]

TService(segs) == [fullName |-> Dotted(segs), name |-> segs[Len(segs)]]

TMethod(segs, requestType, responseType) ==
    [fullName |-> Dotted(segs), name |-> segs[Len(segs)],
     requestType |-> requestType, responseType |-> responseType]

MessageUniverse ==
    {TMessage(<<"a", "b", "M">>, <<Field("t", <<"T">>, FALSE), Field("ids", <<"int32">>, TRUE)>>),
     TMessage(<<"a", "N">>, <<Field("m", Dotted(<<"b", "M">>), TRUE)>>),
     TMessage(<<"a", "b", "T">>, <<>>),
     TMessage(<<"M">>, <<Field("t", <<"T">>, FALSE)>>)}

EnumUniverse ==
    {TEnum(<<"a", "T">>, <<[key |-> "ZERO", value |-> "0"], [key |-> "ONE", value |-> "1"]>>),
     TEnum(<<"a", "b", "E">>, <<[key |-> "NONE", value |-> "0"]>>)}

ServiceUniverse == {TService(<<"a", "b", "Svc">>), TService(<<"a", "Svc">>)}

\* The methods of the services above, in the order the schema declares them.
MethodsOf(service) ==
    IF service.name = "Svc" /\ service.fullName = Dotted(<<"a", "b", "Svc">>)
    THEN <<TMethod(<<"a", "b", "Svc", "Get">>, <<"T">>, Dotted(<<"a", "N">>))>>
    ELSE <<TMethod(<<"a", "Svc", "List">>, <<"N">>, <<"T">>),
           TMethod(<<"a", "Svc", "Get">>, <<"T">>, <<"T">>)>>

\* The lists of at most n distinct elements of a set.
Lists(S, n) ==
    {q \in UNION {[1..k -> S] : k \in 0..n} : \A i, j \in DOMAIN q : q[i] = q[j] => i = j}

RECURSIVE Flatten(_)
Flatten(lists) == IF lists = <<>> THEN <<>> ELSE Head(lists) \o Flatten(Tail(lists))

NoFailure == [kind |-> "none", message |-> <<>>]

\* Before the build: no namespace yet, and empty tables.
NotBuilt ==
    [threw |-> FALSE, error |-> NoFailure, tree |-> <<>>, messageMap |-> {}, enumMap |-> {}]

GenInit ==
    /\ clock = 0
    /\ heap = (callOptions :> EmptyObj) @@ CallerHeap
    /\ w = [i \in Invs |-> IdleClosure]
    /\ promises = [i \in Invs |-> NoPromise]
    /\ rs = NoResolve
    /\ \E messages \in Lists(MessageUniverse, MaxMessages) :
       \E enums \in Lists(EnumUniverse, MaxEnums) :
       \E services \in Lists(ServiceUniverse, MaxServices) :
       \E root \in RootLookups({messages[i].fullName : i \in DOMAIN messages}
                               \cup {enums[i].fullName : i \in DOMAIN enums}) :
       \E jsonSemanticTypes \in BOOLEAN, serviceCode \in BOOLEAN, typescript \in BOOLEAN :
          g = [pc |-> "start",
               input |-> [messages |-> messages, enums |-> enums, services |-> services,
                          methods |-> Flatten([i \in DOMAIN services |-> MethodsOf(services[i])]),
                          root |-> root, jsonSemanticTypes |-> jsonSemanticTypes,
                          serviceCode |-> serviceCode, typescript |-> typescript],
               status |-> "running",
               error |-> NoFailure,
               files |-> <<>>,
               build |-> NotBuilt,
               tasks |-> <<>>,
               unhandled |-> {}]

\* path.join(baseDir, relativePath)
getAbsPath(relativePath) == <<"baseDir", "/">> \o relativePath

\* const moduleSuffix = typescript ? 'ts' : 'js'
moduleSuffix == IF g.input.typescript THEN "ts" ELSE "js"

jsonSemanticTypesPath == getAbsPath(<<"jsonSemanticTypes", ".", "ts">>)

grpcObjPath == getAbsPath(<<"grpcObj", ".", moduleSuffix>>)

grpcClientPath == getAbsPath(<<"getGrpcClient", ".", moduleSuffix>>)

typesPath == getAbsPath(<<"types", ".", "ts">>)

servicePath(service) ==
    getAbsPath(ReplaceAll(service.fullName, ".", <<"/">>) \o <<".", moduleSuffix>>)

serviceDTsPath(service) ==
    getAbsPath(ReplaceAll(service.fullName, ".", <<"/">>) \o <<".", "d", ".", "ts">>)

\* The config handed to genTsType and getTsType: the tables as built.
GenConfig == [messageMap |-> g.build.messageMap, enumMap |-> g.build.enumMap,
              root |-> g.input.root]

\* fs.writeFile(path, text): the file is there with that text.
WriteFile(files, path, lines) == (path :> lines) @@ files

\* The promise of gen is rejected with the error.
Reject(error) == [g EXCEPT !.pc = "failed", !.status = "failed", !.error = error]

\* Where the run awaits next after the namespace is built, and after the
\* semantic types are written.
AfterSemanticTypes == IF g.input.serviceCode THEN "grpcObj" ELSE "return"

AfterBuild == IF g.input.jsonSemanticTypes THEN "jsonSemanticTypes" ELSE AfterSemanticTypes

\* removeSync, mkdirpSync, await loadProto, resolveAll, await writeJSON and
\* inspectNamespace. What the libraries do with the schema is theirs: loading
\* may be rejected, and inspectNamespace may give nothing.
GenLoad ==
    /\ g.pc = "start"
    /\ \E outcome \in {"loaded", "rejected", "nothing"} :
          g' = IF outcome = "rejected"
               THEN Reject([kind |-> "LoadError", message |-> <<>>])
               ELSE IF outcome = "nothing"
               THEN Reject([kind |-> "Error", message |-> <<"None code gen">>])
               ELSE [g EXCEPT !.pc = "build"]
    /\ UNCHANGED <<callVars, promises, rs>>

\* messages.forEach, enums.forEach
GenBuild ==
    /\ g.pc = "build"
    /\ \E built \in {BuildNamespace(g.input.messages, g.input.enums)} :
           g' = IF built.threw
                THEN [Reject(built.error) EXCEPT !.build = built]
                ELSE [g EXCEPT !.pc = AfterBuild, !.build = built]
    /\ UNCHANGED <<callVars, promises, rs>>

\* if (jsonSemanticTypes) await fs.writeFile(jsonSemanticTypesPath, ... genTsType(...withJsonSemantic) ...)
GenJsonSemanticTypes ==
    /\ g.pc = "jsonSemanticTypes"
    /\ \E text \in {genTsType(g.build.tree, <<>>, GenConfig, TRUE, 0)} :
           g' = IF text.threw
                THEN Reject([kind |-> "Error", message |-> text.message])
                ELSE [g EXCEPT !.pc = AfterSemanticTypes,
                               !.files = WriteFile(g.files, jsonSemanticTypesPath, text.lines)]
    /\ UNCHANGED <<callVars, promises, rs>>

\* if (serviceCode) await fs.writeFile(grpcObjPath, ...)
GenGrpcObj ==
    /\ g.pc = "grpcObj"
    /\ g' = [g EXCEPT !.pc = IF g.input.typescript THEN "grpcClient" ELSE "types",
                      !.files = WriteFile(g.files, grpcObjPath, <<>>)]
    /\ UNCHANGED <<callVars, promises, rs>>

\* if (typescript) await fs.writeFile(grpcClientPath, ...)
GenGrpcClient ==
    /\ g.pc = "grpcClient"
    /\ g' = [g EXCEPT !.pc = "types",
                      !.files = WriteFile(g.files, grpcClientPath, <<>>)]
    /\ UNCHANGED <<callVars, promises, rs>>

\* await fs.writeFile(typesPath, fileTip + '\n' + genTsType(namespace, config))
GenTypes ==
    /\ g.pc = "types"
    /\ \E text \in {genTsType(g.build.tree, <<>>, GenConfig, FALSE, 0)} :
           g' = IF text.threw
                THEN Reject([kind |-> "Error", message |-> text.message])
                ELSE [g EXCEPT !.pc = "services",
                               !.files = WriteFile(g.files, typesPath, text.lines)]
    /\ UNCHANGED <<callVars, promises, rs>>

\* services.map(async (service) => {...}): each call runs to its first await,
\* fs.mkdirp, and gives a promise nobody keeps; then console.info('Generate
\* success ...') and return baseDir.
GenServices ==
    /\ g.pc = "services"
    /\ g' = [g EXCEPT !.pc = "returned", !.status = "success",
                      !.tasks = [k \in DOMAIN g.input.services |-> "mkdirp"]]
    /\ UNCHANGED <<callVars, promises, rs>>

\* serviceCode is false: console.info('Generate success ...'); return baseDir
GenReturn ==
    /\ g.pc = "return"
    /\ g' = [g EXCEPT !.pc = "returned", !.status = "success"]
    /\ UNCHANGED <<callVars, promises, rs>>

\* servicesWithMethods[service.fullName].methods: the methods whose package
\* name is the service's full name.
servicesWithMethods(service) ==
    SelectSeq(g.input.methods, LAMBDA m : getPackageName(m.fullName) = service.fullName)

RECURSIVE SortMethods(_)
\* methods.sort by name
SortMethods(methods) ==
    IF methods = {} THEN <<>>
    ELSE The({<<first>> \o The({SortMethods(rest) : rest \in {methods \ {first}}}) :
              first \in {m \in methods : \A o \in methods : Rank(<<m.name>>) <= Rank(<<o.name>>)}})

RECURSIVE methodStrArr(_, _, _, _)
\* .map((method) => ...): the declared overloads of each method, with the two
\* types getTsType gives from the package name of the service.
methodStrArr(methods, i, packageName, config) ==
    IF i > Len(methods) THEN Text(<<>>)
    ELSE LET method == methods[i]
         IN  The({IF request.threw THEN Thrown(request.message)
                  ELSE The({IF response.threw THEN Thrown(response.message)
                            ELSE Then(Text(<<Line(2, <<method.name, "(request: types.">>
                                                     \o request.tsType
                                                     \o <<"): Promise<types.">>
                                                     \o response.tsType \o <<">;">>)>>),
                                      methodStrArr(methods, i + 1, packageName, config)) :
                            response \in {getTsType(method.responseType, packageName, config, FALSE)}}) :
                  request \in {getTsType(method.requestType, packageName, config, FALSE)}})

\* One service's function after fs.mkdirp: the method types, then the write of
\* the service file. A throw rejects the promise nobody keeps.
ServiceGenerate(k) ==
    /\ g.pc = "returned"
    /\ k \in DOMAIN g.tasks
    /\ g.tasks[k] = "mkdirp"
    /\ \E service \in {g.input.services[k]} :
       \E methods \in {servicesWithMethods(service)} :
       \E sorted \in {SortMethods({methods[i] : i \in DOMAIN methods})} :
       \E text \in {methodStrArr(sorted, 1, ServicePackageName(service.fullName), GenConfig)} :
           g' = IF text.threw
                THEN [g EXCEPT !.tasks[k] = "rejected",
                               !.unhandled = @ \cup {[kind |-> "Error", message |-> text.message]}]
                ELSE [g EXCEPT !.tasks[k] = IF g.input.typescript THEN "done" ELSE "dts",
                               !.files = WriteFile(g.files, servicePath(service),
                                                   IF g.input.typescript THEN text.lines ELSE <<>>)]
    /\ UNCHANGED <<callVars, promises, rs>>

\* javascript: await fs.writeFile(serviceDTsPath, [..., ...methodStrArr, ...])
ServiceDts(k) ==
    /\ g.pc = "returned"
    /\ k \in DOMAIN g.tasks
    /\ g.tasks[k] = "dts"
    /\ \E service \in {g.input.services[k]} :
       \E methods \in {servicesWithMethods(service)} :
       \E sorted \in {SortMethods({methods[i] : i \in DOMAIN methods})} :
       \E text \in {methodStrArr(sorted, 1, ServicePackageName(service.fullName), GenConfig)} :
           g' = [g EXCEPT !.tasks[k] = "done",
                          !.files = WriteFile(g.files, serviceDTsPath(service), text.lines)]
    /\ UNCHANGED <<callVars, promises, rs>>

GenNext ==
    \/ GenLoad
    \/ GenBuild
    \/ GenJsonSemanticTypes
    \/ GenGrpcObj
    \/ GenGrpcClient
    \/ GenTypes
    \/ GenServices
    \/ GenReturn
    \/ \E k \in 1..MaxServices : ServiceGenerate(k)
    \/ \E k \in 1..MaxServices : ServiceDts(k)

GenSpec == GenInit /\ [][GenNext]_vars

(***************************************************************************)
(* Properties of the call wrapper.                                         *)
(***************************************************************************)
Min(a, b) == IF a < b THEN a ELSE b

Started(i) == w[i].pc # "Idle"

Finished(i) == w[i].pc = "Done"

\* What the caller's callback was invoked with (when it was).
Outcome(i) == w[i].settled[1]

C1_Counts ==
    \A i \in Invs :
        /\ Finished(i) => Len(w[i].calls) = Min(w[i].fails, 3) + 1
        /\ (Finished(i) /\ w[i].fails = 2 /\ Len(w[i].settled) = 1
                /\ Outcome(i).err = NoError)
            => /\ Len(w[i].calls) = 3
               /\ Outcome(i).response = "response"
        /\ w[i].fails >= 4
            => /\ Finished(i)
               /\ Len(w[i].calls) = 4
               /\ Len(w[i].settled) = 1
               /\ Outcome(i).err.kind \in TransientKinds
               /\ Outcome(i).err.attempt = 4

C1_Timer ==
    \A i \in Invs :
        /\ (w[i].pc = "Attempting" /\ w'[i].pc = "Retrying")
            => w'[i].due = clock + 25
        /\ (Len(w[i].calls) >= 1 /\ Len(w'[i].calls) > Len(w[i].calls))
            => /\ w[i].pc = "Retrying"
               /\ clock >= w[i].due
               /\ Len(w'[i].calls) = Len(w[i].calls) + 1

\* C1: a transport that fails with a transient-pattern error on its first k
\* attempts and then gives another outcome is invoked exactly min(k,3)+1
\* times; fails twice then succeeds: 3 invocations and the success value;
\* always fails: 4 invocations and the last error. Every re-attempt starts only
\* once the timer set 25 units after the failed attempt's answer has fired.
C1_RetryCountAndDelay == []C1_Counts /\ [][C1_Timer]_vars

\* C1 witness: the transport failed transiently on all 4 attempts.
C1_Witness ==
    /\ Finished("i1")
    /\ w["i1"].fails = 4
    /\ Len(w["i1"].calls) = 4
    /\ w["i1"].calls[1].at + 75 <= w["i1"].calls[4].at

C2_State ==
    \A i \in Invs :
        (Started(i) /\ w[i].fails = 0)
            => /\ w[i].pc \in {"Attempting", "Done"}
               /\ Len(w[i].calls) = 1
               /\ w[i].count = 0
               /\ w[i].due = 0
               /\ Finished(i)
                   => /\ Len(w[i].settled) = 1
                      /\ Outcome(i).err.attempt \in {0, 1}

C2_Step ==
    \A i \in Invs :
        (w[i].pc = "Attempting" /\ w[i].fails = w'[i].fails /\ w'[i] # w[i])
            => /\ w'[i].pc = "Done"
               /\ w'[i].count = w[i].count
               /\ w'[i].due = w[i].due

\* C2: when the first attempt fails with an error whose text does not begin
\* "Internal HTTP2 error", the transport was invoked exactly once, the caller
\* is rejected with that error in the very step of the answer, no timer is
\* scheduled and the attempt counter stays 0.
C2_NonTransientNoRetry == []C2_State /\ [][C2_Step]_vars

\* C2 witness: the first attempt failed with "Received RST_STREAM Internal
\* HTTP2 error" (the pattern, not at the start) and the caller has the error.
C2_Witness ==
    /\ Finished("i1")
    /\ Len(w["i1"].calls) = 1
    /\ Len(w["i1"].settled) = 1
    /\ Outcome("i1").err = [kind |-> "wrapped", attempt |-> 1]

C3_Safety ==
    \A i \in Invs :
        /\ Len(w[i].settled) <= 1
        /\ Finished(i) <=> Len(w[i].settled) = 1
        /\ Finished(i) =>
            /\ Outcome(i).callback = w[i].argv[Len(w[i].argv)]
            /\ \/ Outcome(i).err = NoError /\ Outcome(i).response = "response"
               \/ /\ Outcome(i).err # NoError
                  /\ Outcome(i).err.attempt = Len(w[i].calls)
                  /\ Outcome(i).err.kind \in TransientKinds => w[i].count = 3

\* C3: the transport calling back once per attempt and timers firing, every
\* invocation reaches Done and has then invoked the caller's callback exactly
\* once: with the success value, or with the error of the last attempt (a
\* transient one only once the 3 retries are used up); no error of a retried
\* attempt reaches the caller and none of an attempt not retried is dropped.
C3_SettlesExactlyOnce ==
    /\ []C3_Safety
    /\ \A i \in Invs : Started(i) ~> Finished(i)

\* C3 witness: retries used up, the caller has the transient error of attempt 4.
C3_Witness ==
    /\ Finished("i1")
    /\ Len(w["i1"].settled) = 1
    /\ Outcome("i1").err = [kind |-> "h2message", attempt |-> 4]

C4_State ==
    /\ \A o \in CallerObjs : heap[o] = CallerHeap[o]
    /\ \A i \in Invs :
        Started(i) =>
            /\ w[i].options \notin CallerObjs \cup {callOptions}
            /\ \A j \in Invs \ {i} : Started(j) => w[j].options # w[i].options
            /\ w[i].count = Min(w[i].fails, 3)
            /\ Len(w[i].calls) = IF w[i].pc = "Retrying" THEN w[i].count ELSE w[i].count + 1
            /\ heap[w[i].options] = w[i].calls[Len(w[i].calls)].options
            /\ \A n \in 1..Len(w[i].calls) :
                "timeout" \in DOMAIN w[i].calls[n].options
                    => w[i].calls[n].options.deadline
                        = w[i].calls[n].at + w[i].calls[n].options.timeout

C4_Step ==
    /\ heap'[callOptions] = heap[callOptions]
    /\ \A i \in Invs : \A j \in Invs \ {i} :
        w'[i] # w[i]
            => /\ w'[j] = w[j]
               /\ Started(j) => heap'[w[j].options] = heap[w[j].options]

\* C4: with two invocations in flight, interleaved in any way, each has its own
\* retry counter (it counts that invocation's transient failures only, up to
\* 3) and its own options object with its own deadline; a step of one changes
\* nothing of the other, and no step writes to an options object a caller
\* passed or to the module's callOptions.
C4_PerInvocationState == []C4_State /\ [][C4_Step]_vars

\* C4 witness: both invocations were given the same options object o1; one has
\* used its 3 retries while the other is on its first attempt.
C4_Witness ==
    /\ w["i1"].argv = <<<<"request", "caller", "reqA">>, Ref("caller", "o1"), Callback("i1")>>
    /\ w["i2"].argv = <<<<"request", "caller", "reqA">>, Ref("caller", "o1"), Callback("i2")>>
    /\ w["i1"].count = 3
    /\ w["i2"].pc = "Attempting"
    /\ w["i2"].count = 0
    /\ w["i1"].pc = "Attempting"

\* The options the caller gave, by the position the argument count assigns.
GivenOptions(i) ==
    LET a == w[i].argv
    IN  CASE Len(a) = 3 -> Source(CallerHeap, a[2])
          [] Len(a) = 4 -> Source(CallerHeap, a[3])
          [] OTHER -> EmptyObj

\* C5: on every attempt, when options.timeout is a number the deadline handed
\* to the transport is the clock at the start of that attempt plus timeout, and
\* so later than the previous attempt's; when it is not a number the deadline
\* is the one the caller gave, or none.
C5_DeadlinePerAttempt ==
    \A i \in Invs : \A n \in 1..Len(w[i].calls) :
        LET c == w[i].calls[n]
        IN  IF "timeout" \in DOMAIN c.options
            THEN /\ c.options.deadline = c.at + c.options.timeout
                 /\ n > 1 => c.options.deadline > w[i].calls[n - 1].options.deadline
            ELSE /\ "deadline" \in DOMAIN c.options
                     <=> "deadline" \in DOMAIN GivenOptions(i)
                 /\ "deadline" \in DOMAIN c.options
                     => c.options.deadline = GivenOptions(i).deadline

\* C5 witness: a retry with a numeric timeout, and a retry of a call whose
\* options carry a deadline and no timeout.
C5_Witness ==
    /\ Len(w["i1"].calls) >= 2
    /\ "timeout" \in DOMAIN w["i1"].calls[2].options
    /\ "deadline" \in DOMAIN GivenOptions("i1")

\* What the transport was handed on attempt n of invocation i.
Handed(i, n) ==
    [request |-> w[i].calls[n].request,
     metadata |-> w[i].calls[n].metadata,
     options |-> w[i].calls[n].options]

C6_ByCount ==
    \A i \in Invs :
        Started(i) =>
            LET a == w[i].argv
            IN  /\ w[i].request = a[1]
                /\ w[i].callback = a[Len(a)]
                /\ \A n \in 1..Len(w[i].calls) :
                    LET sent == Handed(i, n)
                        opts == [k \in DOMAIN sent.options \ {"deadline"} |-> sent.options[k]]
                    IN  /\ sent.request = a[1]
                        /\ Len(a) = 2 =>
                            /\ sent.metadata = EmptyObj
                            /\ opts = heap[callOptions]
                        /\ Len(a) = 3 =>
                            /\ sent.metadata = EmptyObj
                            /\ \A k \in DOMAIN Source(CallerHeap, a[2]) \ {"deadline"} :
                                   k \in DOMAIN opts /\ opts[k] = CallerHeap[a[2]][k]
                        /\ Len(a) = 4 =>
                            /\ sent.metadata = Source(CallerHeap, a[2])
                            /\ \A k \in DOMAIN Source(CallerHeap, a[3]) \ {"deadline"} :
                                   k \in DOMAIN opts /\ opts[k] = CallerHeap[a[3]][k]

C6_TwoLikeFour ==
    \A i \in Invs : \A j \in Invs \ {i} :
        (/\ Started(i) /\ Started(j)
         /\ Len(w[i].argv) = 2
         /\ w[j].argv = <<w[i].argv[1], Ref("caller", "empty"), Ref("caller", "empty"),
                          Callback(j)>>)
        => /\ \A n \in 1..Min(Len(w[i].calls), Len(w[j].calls)) :
                w[i].calls[n].at = w[j].calls[n].at => Handed(i, n) = Handed(j, n)
           /\ (Finished(i) /\ Finished(j) /\ w[i].fails = w[j].fails
                   /\ Outcome(i).err.kind = Outcome(j).err.kind)
               => /\ Len(w[i].calls) = Len(w[j].calls)
                  /\ Outcome(i).err = Outcome(j).err
                  /\ Outcome(i).response = Outcome(j).response
                  /\ Outcome(i).callback = Callback(i)
                  /\ Outcome(j).callback = Callback(j)

\* C6: the wrapper reads its arguments by their count alone: 2 arguments are
\* (request, callback) and give the transport the same request, metadata and
\* options, and the caller the same outcome, as (request, {}, {}, callback);
\* 3 are (request, options, callback) with empty metadata; 4 are (request,
\* metadata, options, callback).
C6_ArityDisambiguation == C6_ByCount /\ C6_TwoLikeFour

\* C6 witness: a 2-argument and a 4-argument ({}, {}) invocation both retried
\* at the same times, and have both finished.
C6_Witness ==
    /\ Len(w["i1"].argv) = 2
    /\ w["i2"].argv = <<w["i1"].argv[1], Ref("caller", "empty"), Ref("caller", "empty"),
                        Callback("i2")>>
    /\ Finished("i1") /\ Finished("i2")
    /\ Len(w["i1"].calls) = 2 /\ Len(w["i2"].calls) = 2
    /\ w["i1"].calls[2].at = w["i2"].calls[2].at
    /\ "timeout" \in DOMAIN heap[callOptions]

(***************************************************************************)
(* Properties of the type resolver.                                        *)
(***************************************************************************)
Resolved == rs.phase = "resolved"

\* The package of the symbol the reference is resolved from.
ReferencingPackage == getPackageName(rs.from)

\* C7: resolving the bare token T from inside a symbol of package P gives P.T
\* whenever P.T is in the message table or the enum table, whatever other
\* symbols named T there are in another package, in an ancestor package or
\* nested under the referencing message.
C7_NearestScopeWins ==
    LET PT == ReferencingPackage \o <<".">> \o rs.protoType
    IN  (/\ Resolved
         /\ rs.protoType = <<"T">>
         /\ ReferencingPackage # <<>>
         /\ PT \in rs.messageMap \cup rs.enumMap)
        => (~rs.result.threw /\ rs.result.tsType = PT)

\* C8: for each of the 15 scalar keywords getTsType gives the scalar reference
\* (basic, the mapped primitive) and tests no key of the message table, of the
\* enum table or of the global lookup, whatever symbols the tables hold.
C8_ScalarShortCircuit ==
    (Resolved /\ rs.protoType \in ScalarKeywords)
    => /\ ~rs.result.threw
       /\ rs.result.basic
       /\ rs.result.tsType = <<PROTO_TYPE_2_TS_TYPE_MAP[rs.protoType[1]]>>
       /\ rs.result.semanticType = <<PROTO_TYPE_2_JSON_SEMANTIC_MAP[rs.protoType[1]]>>
       /\ rs.result.probes = <<>>

\* int32 resolved from a.b.M while a message a.b.int32 is in its package.
C8_Witness ==
    /\ Resolved
    /\ rs.protoType = <<"int32">>
    /\ rs.from = Dotted(<<"a", "b", "M">>)
    /\ Dotted(<<"a", "b", "int32">>) \in rs.messageMap
    /\ rs.result.basic
    /\ rs.result.tsType = <<"number">>

(***************************************************************************)
(* Properties of a run of gen.                                             *)
(***************************************************************************)
\* The config of the whole schema: every message and enum in its table.
SchemaConfig ==
    [messageMap |-> {g.input.messages[i].fullName : i \in DOMAIN g.input.messages},
     enumMap |-> {g.input.enums[i].fullName : i \in DOMAIN g.input.enums},
     root |-> g.input.root]

NotExist(T, F) == T \o <<" not exist in message: ">> \o F

\* The field types no step resolves: <<T, F>>, F the message of the field.
UnresolvedFields ==
    LET Messages == {g.input.messages[i] : i \in DOMAIN g.input.messages}
        Fields == UNION {{<<m, j>> : j \in DOMAIN m.fields} : m \in Messages}
        Threw(m, field) == getTsType(field.type, m.fullName, SchemaConfig, field.repeated).threw
    IN  {<<mj[1].fields[mj[2]].type, mj[1].fullName>> :
            mj \in {x \in Fields : Threw(x[1], x[1].fields[x[2]])}}

\* The services with a method whose request or response type no step resolves,
\* each with the <<T, F>> of those types, F the scope the service resolves from.
UnresolvedOf(service) ==
    {<<t, ServicePackageName(service.fullName)>> :
        t \in {u \in {g.input.methods[i].requestType : i \in DOMAIN g.input.methods}
                     \cup {g.input.methods[i].responseType : i \in DOMAIN g.input.methods} :
                 /\ \E i \in DOMAIN g.input.methods :
                       /\ getPackageName(g.input.methods[i].fullName) = service.fullName
                       /\ u \in {g.input.methods[i].requestType, g.input.methods[i].responseType}
                 /\ getTsType(u, ServicePackageName(service.fullName), SchemaConfig, FALSE).threw}}

Services == {g.input.services[k] : k \in DOMAIN g.input.services}

UnresolvedMethods == UNION {UnresolvedOf(service) : service \in Services}

\* The run is over: gen has settled and no service function is left to run.
RunOver ==
    \/ g.pc = "failed"
    \/ g.pc = "returned" /\ \A k \in DOMAIN g.tasks : g.tasks[k] \in {"done", "rejected"}

\* C9: with service code asked for, when a field type or a method request or
\* response type is resolved by no step, gen never reports success, a run that
\* got as far as resolving types ends rejected with the error naming T and F,
\* and neither the type declarations nor the file of a service with such a
\* type is written.
C9_UnresolvedTypeAborts ==
    (g.pc # "none" /\ g.input.serviceCode)
    => /\ (UnresolvedFields \cup UnresolvedMethods # {}) => g.status # "success"
       /\ (UnresolvedFields \cup UnresolvedMethods # {} /\ RunOver
           /\ g.build # NotBuilt /\ ~g.build.threw)
          => /\ g.status = "failed"
             /\ \E tf \in UnresolvedFields \cup UnresolvedMethods :
                   g.error.message = NotExist(tf[1], tf[2])
       /\ UnresolvedFields # {}
          => typesPath \notin DOMAIN g.files /\ jsonSemanticTypesPath \notin DOMAIN g.files
       /\ \A service \in Services :
             UnresolvedOf(service) # {}
             => /\ servicePath(service) \notin DOMAIN g.files
                /\ serviceDTsPath(service) \notin DOMAIN g.files

\* The lists a list can be reordered into.
Reorderings(list) ==
    {[i \in DOMAIN list |-> list[f[i]]] : f \in Permutations(DOMAIN list)}

Built == g.pc # "none" /\ g.build # NotBuilt

\* C10: whatever order the messages and the enums are listed in, the build
\* gives the same namespace tree and the same declarations as the run's: the
\* build of every reordering ends as the run's did, with the run's tree, and
\* its text is the text of the types file once that is written.
C10_EmissionStableUnderPermutation ==
    Built
    => \A messages \in Reorderings(g.input.messages) :
       \A enums \in Reorderings(g.input.enums) :
       \A other \in {BuildNamespace(messages, enums)} :
          /\ other.threw = g.build.threw
          /\ ~g.build.threw => other.tree = g.build.tree
          /\ typesPath \in DOMAIN g.files
             => genTsType(other.tree, <<>>,
                          [messageMap |-> other.messageMap, enumMap |-> other.enumMap,
                           root |-> g.input.root], FALSE, 0)
                = Text(g.files[typesPath])

\* The symbols of the run's schema, each with the map it belongs in.
Symbols ==
    {[mapKey |-> "messages", symbol |-> g.input.messages[i]] : i \in DOMAIN g.input.messages}
    \cup {[mapKey |-> "enums", symbol |-> g.input.enums[i]] : i \in DOMAIN g.input.enums}

RECURSIVE NestedPath(_)
\* The node reached from the root by the segments of a package: nested[s1],
\* then nested[s2] of that, and so on; the root itself for no segment.
NestedPath(segs) ==
    IF segs = <<>> THEN <<>>
    ELSE <<<<"nested">>, <<Head(segs)>>>> \o NestedPath(Tail(segs))

\* The segments of the package of a full name: none for a name without a dot.
PackageSegments(fullName) ==
    LET parts == Split(fullName, ".")
    IN  [k \in 1..(Len(parts) - 1) |-> parts[k][1]]

\* Where a symbol belongs in the tree: the map of its kind in the node of its
\* package, under its local name.
PlaceOf(s) ==
    NestedPath(PackageSegments(s.symbol.fullName)) \o <<<<s.mapKey>>, <<s.symbol.name>>>>

\* C11: the build completes for every symbol list, and every message and enum
\* is then in the map of its kind of the node of its package, keyed by its
\* local name, also when that node existed before the map did.
C11_BuildCompletes ==
    Built
    => /\ ~g.build.threw
       /\ \A s \in Symbols :
             /\ PlaceOf(s) \in DOMAIN g.build.tree
             /\ g.build.tree[PlaceOf(s)] = [kind |-> s.mapKey, symbol |-> s.symbol]

NoDot(fullName) == "." \notin {fullName[k] : k \in 1..Len(fullName)}

\* The lines of the types file that declare a symbol.
DeclarationsOf(s) ==
    {k \in DOMAIN g.files[typesPath] :
        g.files[typesPath][k].text
          = <<(IF s.mapKey = "messages" THEN "export interface " ELSE "export enum "),
              s.symbol.name, " {">>}

\* C12: a symbol with no dot in its full name is in the root node's own map of
\* its kind and in no other node, and the types file declares it at the top
\* level, outside every namespace.
C12_NoPackageAtRoot ==
    (Built /\ ~g.build.threw)
    => \A s \in {x \in Symbols : NoDot(x.symbol.fullName)} :
          /\ <<<<s.mapKey>>, <<s.symbol.name>>>> \in DOMAIN g.build.tree
          /\ \A p \in DOMAIN g.build.tree :
                g.build.tree[p] = [kind |-> s.mapKey, symbol |-> s.symbol]
                => p = <<<<s.mapKey>>, <<s.symbol.name>>>>
          /\ typesPath \in DOMAIN g.files
             => /\ DeclarationsOf(s) # {}
                /\ \A k \in DeclarationsOf(s) : g.files[typesPath][k].indent = 0

\* C15: once gen has reported success and resolved, every service's function
\* has run to its end and its files are written: none is pending, none can
\* still fail.
C15_SuccessAfterServiceFiles ==
    (g.pc # "none" /\ g.status = "success" /\ g.input.serviceCode)
    => \A k \in DOMAIN g.input.services :
          /\ g.tasks[k] = "done"
          /\ servicePath(g.input.services[k]) \in DOMAIN g.files
          /\ ~g.input.typescript => serviceDTsPath(g.input.services[k]) \in DOMAIN g.files

RECURSIVE LevelSearch(_, _, _, _)
\* The search level by level: {package}.T in the message table, then in the
\* enum table, at one level; then the same one segment further out, down to
\* the empty package, where the key is T alone.
LevelSearch(segs, T, messageMap, enumMap) ==
    LET key == IF segs = <<>> THEN T ELSE Dotted(segs) \o <<".">> \o T
    IN  IF key \in messageMap \cup enumMap THEN key
        ELSE IF segs = <<>> THEN Null
        ELSE LevelSearch(DropLast(segs), T, messageMap, enumMap)

RootQueried == \E k \in DOMAIN rs.result.probes : rs.result.probes[k][1] = "root"

\* C13: for the bare token T, getTsType gives the first hit of the search
\* level by level from the package of the referencing symbol outward; when
\* every level misses it gives what the global lookup finds, and resolution
\* fails only when the lookup was queried and misses too.
C13_LevelByLevelSearch ==
    (Resolved /\ rs.protoType = <<"T">>)
    => LET hit == LevelSearch(PackageSegments(rs.from), rs.protoType,
                              rs.messageMap, rs.enumMap)
           found == rs.root[rs.protoType]
       IN  /\ hit # Null
              => ~rs.result.threw /\ rs.result.tsType = hit
           /\ (hit = Null /\ found # Null)
              => ~rs.result.threw /\ rs.result.tsType = StripLeadingDot(found)
           /\ (hit = Null /\ found = Null)
              => rs.result.threw /\ RootQueried

(***************************************************************************)
(* Properties of the legacy promise form.                                  *)
(***************************************************************************)
\* C14: through the overload name(request, metadata, options?), the metadata
\* map of the caller is the metadata of every attempt, with the options
\* argument or without it, and the call options of every attempt are those of
\* callOptions and of the options argument only.
C14_LegacyMetadata ==
    \A i \in Invs :
        promises[i].overload = "metadata"
        => \A n \in 1..Len(w[i].calls) :
              LET sent == Handed(i, n)
                  a == promises[i].args
                  given == IF Len(a) = 3 THEN Source(CallerHeap, a[3]) ELSE EmptyObj
                  opts == [k \in DOMAIN sent.options \ {"deadline"} |-> sent.options[k]]
                  meant == Assign(heap[callOptions], given)
              IN  /\ sent.metadata = Source(CallerHeap, a[2])
                  /\ opts = [k \in DOMAIN meant \ {"deadline"} |-> meant[k]]

====
